---- MODULE Spec2Model ----
(***************************************************************************)
(* Model of align.py: alignment of a source embedding space onto a target  *)
(* space (orthogonal Procrustes), with optional insertion of               *)
(* out-of-vocabulary words.  The script is sequential; pc is its position. *)
(*                                                                         *)
(* Text is modelled as sequences of characters, so that strip and split    *)
(* are computed as Python computes them.  Vectors are sequences of         *)
(* integers and matrices are sequences of rows; the input domains are      *)
(* chosen so that normalisation and the SVD are exact in integer           *)
(* arithmetic (see ExactRow and svd).                                      *)
(***************************************************************************)
EXTENDS Integers, Sequences, FiniteSets, TLC

VARIABLES
    pc,                   \* position in the script / stage of the pipeline
    args,                 \* parsed command line (unsup, biling_dict, insert)
    fs,                   \* names of the files that exist on disk
    source_vecs,          \* source FastVector (word -> vector), or None
    target_vecs,          \* target FastVector (word -> vector), or None
    source_words,         \* set(source_vecs.word2id.keys())
    target_words,         \* set(target_vecs.word2id.keys())
    bilingual_dictionary, \* list of (source_word, target_word)
    new_entries,          \* the unsupervised pairs (line 92), or Unbound
    to_insert,            \* insertion queue, or Unbound when --insert is off
    words_added,          \* counter of supervised alignments
    read_lines,           \* the lines of the dictionary file consumed so far
    source_matrix,        \* training matrix (list of rows)
    target_matrix,        \* training matrix (list of rows)
    transform,            \* result of learn_transformation, or None
    ins_i,                \* number of queue entries the insertion loop has visited
    reported,             \* the number printed by 'inserted N words', or None
    output,               \* the exported space, or None
    svd_calls,            \* how many times np.linalg.svd was entered
    transformed,          \* apply_transform has run on the source space
    insert_calls,         \* how many times source_vecs.insert was called
    insert_on_existing,   \* insert was called for a word already in the space
    export_calls          \* how many times source_vecs.export was called

vars == <<pc, args, fs, source_vecs, target_vecs, source_words, target_words,
          bilingual_dictionary, new_entries, to_insert, words_added, read_lines,
          source_matrix, target_matrix, transform, ins_i, reported, output,
          svd_calls, transformed, insert_calls, insert_on_existing, export_calls>>

\* An optional value is a sequence of length 0 or 1: Python's None, or a name
\* that was never bound, is the empty one.
None == <<>>
Unbound == <<>>
Some(x) == <<x>>
Val(o) == o[1]
IsSome(o) == o # <<>>

---------------------------------------------------------------------------
\* Bounds of the model.

\* Lines of the dictionary file read in one run.
MaxLines == 2
\* Length of the pair list given to make_training_matrices on its own.
MaxPairs == 2
\* Rows of the training matrices given to learn_transformation on its own.
MaxRows == 2

---------------------------------------------------------------------------
\* Characters and text.

a == "a"
SP == " "
TAB == "\t"
NL == "\n"

\* The words of the model: "a", "aa", and the two-token "a a".
W_a == <<a>>
W_aa == <<a, a>>
W_a_a == <<a, SP, a>>

\* What str.strip() removes.
IsWhitespace(c) == c \in {SP, TAB, NL}

RECURSIVE LStrip(_)
LStrip(s) ==
    IF s = <<>> THEN <<>>
    ELSE IF IsWhitespace(Head(s)) THEN LStrip(Tail(s)) ELSE s

RECURSIVE RStrip(_)
RStrip(s) ==
    IF s = <<>> THEN <<>>
    ELSE IF IsWhitespace(s[Len(s)]) THEN RStrip(SubSeq(s, 1, Len(s) - 1)) ELSE s

\* str.strip()
Strip(s) == RStrip(LStrip(s))

\* str.split(sep): the fields between separators, empty fields kept.
RECURSIVE SplitFrom(_, _, _, _)
SplitFrom(s, sep, cur, acc) ==
    IF s = <<>> THEN Append(acc, cur)
    ELSE IF Head(s) = sep THEN SplitFrom(Tail(s), sep, <<>>, Append(acc, cur))
    ELSE SplitFrom(Tail(s), sep, Append(cur, Head(s)), acc)

Split(s, sep) == SplitFrom(s, sep, <<>>, <<>>)

\* ' ' in new_source
ContainsSpace(w) == \E i \in 1..Len(w) : w[i] = SP

\* The contents of the lines the dictionary file may hold (without the line end).
LineContents ==
    { <<>>,                               \* blank
      <<SP>>,                             \* blank after strip
      <<a>>,                              \* one field
      <<a, TAB, a, TAB, a>>,              \* three fields
      <<TAB, a>>,                         \* leading tab: stripped, one field
      <<a, TAB, a>>,                      \* a -> a
      <<SP, a, SP, TAB, SP, a, SP>>,      \* a -> a, to be trimmed
      <<a, a, TAB, a>>,                   \* aa -> a
      <<a, TAB, a, a>>,                   \* a -> aa
      <<a, a, TAB, a, a>>,                \* aa -> aa
      <<a, SP, a, TAB, a>> }              \* "a a" -> a

---------------------------------------------------------------------------
\* Vectors and matrices.  A vector is a sequence of integers, a matrix a
\* sequence of rows; the matrix with no rows is << >>.

RECURSIVE SumTo(_, _)
\* sum of f[1..n]
SumTo(f, n) == IF n = 0 THEN 0 ELSE f[n] + SumTo(f, n - 1)

RECURSIVE ToSeq(_, _)
\* the sequence f[1], ..., f[n]
ToSeq(f, n) == IF n = 0 THEN <<>> ELSE Append(ToSeq(f, n - 1), f[n])

Rows(m) == Len(m)
Cols(m) == IF m = <<>> THEN 0 ELSE Len(m[1])

\* matrix.transpose()
Transpose(m) ==
    ToSeq([j \in 1..Cols(m) |-> ToSeq([i \in 1..Rows(m) |-> m[i][j]], Rows(m))],
          Cols(m))

\* np.matmul of a (p x q) and a (q x r) matrix
MatMulOf(A, B) ==
    ToSeq([i \in 1..Rows(A) |->
             ToSeq([j \in 1..Cols(B) |->
                      SumTo([k \in 1..Rows(B) |-> A[i][k] * B[k][j]], Rows(B))],
                   Cols(B))],
          Rows(A))

\* (the arguments are evaluated once)
MatMul(A0, B0) == CHOOSE R \in { MatMulOf(A, B) : A \in {A0}, B \in {B0} } : TRUE

Identity(d) ==
    ToSeq([i \in 1..d |-> ToSeq([j \in 1..d |-> IF i = j THEN 1 ELSE 0], d)], d)

Diag(s) ==
    ToSeq([i \in 1..Len(s) |->
             ToSeq([j \in 1..Len(s) |-> IF i = j THEN s[i] ELSE 0], Len(s))],
          Len(s))

SumSq(v) == SumTo([i \in 1..Len(v) |-> v[i] * v[i]], Len(v))

\* A row whose 2-norm is an integer that divides every component: on such rows
\* np.linalg.norm and the division are exact in integers.
ExactRow(v) ==
    \E r \in 0..SumSq(v) :
        /\ r * r = SumSq(v)
        /\ r = 0 \/ \A i \in 1..Len(v) : v[i] % r = 0

\* np.linalg.norm(row, 2)
Norm2(v) == CHOOSE r \in 0..SumSq(v) : r * r = SumSq(v)

\* normalized(a): each row divided by its norm, a zero norm replaced by 1.
\* For the array of no rows (shape (0,)) the norm is the scalar 0, replaced by
\* 1, and the division broadcasts (0,) against (1,1) to shape (1,0).
normalized(m) ==
    IF m = <<>> THEN << <<>> >>
    ELSE ToSeq([i \in 1..Rows(m) |->
                  LET l2 == IF Norm2(m[i]) = 0 THEN 1 ELSE Norm2(m[i])
                  IN  ToSeq([j \in 1..Len(m[i]) |-> m[i][j] \div l2], Len(m[i]))],
               Rows(m))

\* The orthogonal matrices with integer entries: the signed permutation
\* matrices of dimension d.
Orth(d) ==
    { ToSeq([i \in 1..d |-> ToSeq([j \in 1..d |-> IF p[i] = j THEN sg[i] ELSE 0], d)], d) :
        p \in { q \in [1..d -> 1..d] : \A x, y \in 1..d : q[x] = q[y] => x = y },
        sg \in [1..d -> {-1, 1}] }

\* The dimensions of the model, and their orthogonal matrices.
Dims == {1, 2}

OrthOf == [d \in Dims |-> Orth(d)]

IsDiagonal(m) == \A i \in 1..Rows(m) : \A j \in 1..Cols(m) : i # j => m[i][j] = 0

\* np.linalg.svd(M): every (U, s, Vh) with U, Vh orthogonal, s non-negative and
\* descending, and U diag(s) Vh = M.  The choice among them (signs, ties) is
\* LAPACK's.  Only decompositions with integer U and Vh are represented: all
\* of them in dimension 1, and in higher dimension those of the matrices with
\* at most one non-zero entry in each row and column.  The 0 x 0 matrix is
\* rejected by older numpy (LinAlgError, 'Arrays cannot be empty') and
\* decomposed into empty factors by newer numpy.
SvdOf(M) ==
    IF M = <<>>
    THEN { [err |-> TRUE, U |-> <<>>, s |-> <<>>, V |-> <<>>],
           [err |-> FALSE, U |-> <<>>, s |-> <<>>, V |-> <<>>] }
    ELSE LET d == Rows(M)
             \* diag(s) = U^T M Vh^T
             IsSigma(D) ==
                 /\ IsDiagonal(D)
                 /\ \A i \in 1..d : D[i][i] >= 0
                 /\ \A i \in 1..(d - 1) : D[i][i] >= D[i + 1][i + 1]
         IN  UNION
               { { [err |-> FALSE, U |-> Transpose(x[1]),
                    s |-> ToSeq([i \in 1..d |-> y[2][i][i]], d),
                    V |-> Transpose(y[1])] :
                     y \in { z \in { <<Vt, MatMul(x[2], Vt)>> : Vt \in OrthOf[d] } :
                               IsSigma(z[2]) } } :
                 x \in { <<Ut, MatMul(Ut, M)>> : Ut \in OrthOf[d] } }

\* (the argument is evaluated once)
svd(M0) == UNION { SvdOf(M) : M \in {M0} }

HasExactSVD(M) == svd(M) # {}

---------------------------------------------------------------------------
\* FastVector: the embedding space, a mapping from word to vector.

\* word in fv
FV_Contains(fv, w) == w \in DOMAIN fv

\* fv[word]
FV_Get(fv, w) == fv[w]

\* fv.apply_transform(T): embed = matmul(embed, T).  The product is undefined
\* (ValueError, err) when the vectors' length is not the number of rows of T.
FV_ApplyTransform(fv, T) ==
    IF \E w \in DOMAIN fv : Len(fv[w]) # Rows(T)
    THEN [err |-> TRUE, fv |-> fv]
    ELSE [err |-> FALSE, fv |-> [w \in DOMAIN fv |-> MatMul(<<fv[w]>>, T)[1]]]

\* The perturbations insert(vary=True) may add to the anchor vector.
Noise(d) == [1..d -> {-1, 1}]

\* fv.insert(word, vector, vary=True): the spaces that may result.  The word
\* is keyed to the perturbed vector; for a word already present the outcome
\* is either the old or the new vector.
FV_Insert(fv, word, vector) ==
    LET put(v) == [x \in DOMAIN fv \cup {word} |-> IF x = word THEN v ELSE fv[x]]
        fresh == { put(ToSeq([i \in 1..Len(vector) |-> vector[i] + n[i]], Len(vector))) :
                     n \in Noise(Len(vector)) }
    IN  IF word \in DOMAIN fv THEN fresh \cup {fv} ELSE fresh

\* fv.export(path): what is written.
FV_Export(fv) == fv

---------------------------------------------------------------------------
\* make_training_matrices

\* One iteration of the loop of make_training_matrices: the pair's vectors
\* are appended to both matrices when both words are known.
TrainingStepSeparate(sd, td, pair, acc) ==
    [source |-> IF FV_Contains(sd, pair[1])
                THEN Append(acc.source, FV_Get(sd, pair[1])) ELSE acc.source,
     target |-> IF FV_Contains(td, pair[2])
                THEN Append(acc.target, FV_Get(td, pair[2])) ELSE acc.target]

TrainingStep(sd, td, pair, acc) ==
    IF FV_Contains(sd, pair[1]) /\ FV_Contains(td, pair[2])
    THEN [source |-> Append(acc.source, FV_Get(sd, pair[1])),
          target |-> Append(acc.target, FV_Get(td, pair[2]))]
    ELSE acc

RECURSIVE TrainingLoop(_, _, _, _)
TrainingLoop(sd, td, pairs, acc) ==
    IF pairs = <<>> THEN acc
    ELSE TrainingLoop(sd, td, Tail(pairs), TrainingStep(sd, td, Head(pairs), acc))

make_training_matrices(source_dictionary, target_dictionary, pairs) ==
    TrainingLoop(source_dictionary, target_dictionary, pairs,
                 [source |-> <<>>, target |-> <<>>])

---------------------------------------------------------------------------
\* learn_transformation

\* U x Vh
CombineScaled(d) == MatMul(MatMul(d.U, Diag(d.s)), d.V)

Combine(d) == MatMul(d.U, d.V)

\* source_matrix.transpose() x target_matrix, after the optional normalisation
Product(sm, tm, normalize_vectors) ==
    LET s == IF normalize_vectors THEN normalized(sm) ELSE sm
        t == IF normalize_vectors THEN normalized(tm) ELSE tm
    IN  MatMul(Transpose(s), t)

\* The outcomes of learn_transformation: for each decomposition the SVD may
\* return, U x Vh; or the SVD's error (err).
learn_transformation(sm, tm, normalize_vectors) ==
    { [err |-> d.err, T |-> Combine(d)] :
        d \in svd(Product(sm, tm, normalize_vectors)) }

---------------------------------------------------------------------------
\* The dictionary reading loop.

NoEntry == <<>>

\* Lines 99-106: the trimmed pair of a line, or NoEntry for a blank line or a
\* line that does not have exactly two tab-separated fields.
ParseLine(raw) ==
    LET line == Strip(raw)
    IN  IF line = <<>> THEN NoEntry
        ELSE LET words == Split(line, TAB)
             IN  IF Len(words) # 2 THEN NoEntry
                 ELSE <<Strip(words[1]), Strip(words[2])>>

\* Lines 108-112 for one entry: st holds bilingual_dictionary, to_insert
\* (optional) and words_added.
DictStepSourceOnly(entry, sw, tw, insert, st) ==
    IF entry[1] \in sw
    THEN [st EXCEPT !.bd = Append(@, entry), !.added = @ + 1]
    ELSE IF entry[2] \in tw /\ insert
    THEN [st EXCEPT !.queue = Some(Append(Val(@), entry))]
    ELSE st

DictStepIfNotElif(entry, sw, tw, insert, st) ==
    LET st1 == IF entry[1] \in sw /\ entry[2] \in tw
               THEN [st EXCEPT !.bd = Append(@, entry), !.added = @ + 1]
               ELSE st
    IN  IF entry[2] \in tw /\ insert
        THEN [st1 EXCEPT !.queue = Some(Append(Val(@), entry))]
        ELSE st1

DictStep(entry, sw, tw, insert, st) ==
    IF entry[1] \in sw /\ entry[2] \in tw
    THEN [st EXCEPT !.bd = Append(@, entry), !.added = @ + 1]
    ELSE IF entry[2] \in tw /\ insert
    THEN [st EXCEPT !.queue = Some(Append(Val(@), entry))]
    ELSE st

---------------------------------------------------------------------------
\* The script.

\* The spaces a pickle file may hold: one-dimensional vectors for the words
\* "a" and "aa".
PickleSpaces ==
    { (W_a :> <<0>>),
      (W_a :> <<-1>>) @@ (W_aa :> <<2>>),
      (W_a :> <<2>>) @@ (W_aa :> <<-3>>) }

\* cached_load_vecs(filename): the value returned and the files afterwards.
\* With filename.pickle present its content is returned.  Otherwise the
\* vectors are read, a dump to filename + 'pickle' is tried (it may fail), and
\* the function ends without a return statement: the caller gets None.
cached_load_vecs(filename, files) ==
    IF (filename \o ".pickle") \in files
    THEN { [ret |-> Some(sp), fs |-> files] : sp \in PickleSpaces }
    ELSE { [ret |-> None, fs |-> files \cup {filename \o "pickle"}],
           [ret |-> None, fs |-> files] }

\* The orders list(set) may give.
Orderings(S) ==
    { f \in [1..Cardinality(S) -> S] :
        \A i, j \in 1..Cardinality(S) : f[i] = f[j] => i = j }

OverlapSourceOnly(sw, tw) == sw

\* source_words & target_words
Overlap(sw, tw) == sw \cap tw

\* The statement that follows position p in the script (lines 117-143).
NextStepInsertFirst(p, insert) ==
    CASE p = "matrices" -> "learn"
      [] p = "learn" -> IF insert THEN "insert_loop" ELSE "apply"
      [] p = "insert_loop" -> "apply"
      [] p = "apply" -> "export"
      [] p = "export" -> "done"

NextStep(p, insert) ==
    CASE p = "matrices" -> "learn"
      [] p = "learn" -> "apply"
      [] p = "apply" -> IF insert THEN "insert_loop" ELSE "export"
      [] p = "insert_loop" -> "export"
      [] p = "export" -> "done"

\* After argument parsing (lines 63-70).  Names not yet bound hold the value
\* their first assignment gives them where that assignment is unconditional
\* (bilingual_dictionary, line 85), and Unbound otherwise.
Init ==
    /\ pc = "load_source"
    /\ args \in [source : {"src.vec"}, target : {"tgt.vec"}, output : {"out.vec"},
                 unsup : BOOLEAN, biling_dict : BOOLEAN, insert : BOOLEAN]
    /\ fs \in { {"src.vec", "tgt.vec"} \cup c :
                  c \in SUBSET {"src.vec.pickle", "tgt.vec.pickle"} }
    /\ source_vecs = Unbound
    /\ target_vecs = Unbound
    /\ source_words = {}
    /\ target_words = {}
    /\ bilingual_dictionary = <<>>
    /\ new_entries = Unbound
    /\ to_insert = Unbound
    /\ words_added = 0
    /\ read_lines = <<>>
    /\ source_matrix = <<>>
    /\ target_matrix = <<>>
    /\ transform = Unbound
    /\ ins_i = 0
    /\ reported = None
    /\ output = None
    /\ svd_calls = 0
    /\ transformed = FALSE
    /\ insert_calls = 0
    /\ insert_on_existing = FALSE
    /\ export_calls = 0

\* line 74
LoadSource ==
    /\ pc = "load_source"
    /\ \E r \in cached_load_vecs(args.source, fs) :
          /\ source_vecs' = r.ret
          /\ fs' = r.fs
    /\ pc' = "load_target"
    /\ UNCHANGED <<args, target_vecs, source_words, target_words,
                   bilingual_dictionary, new_entries, to_insert, words_added,
                   read_lines, source_matrix, target_matrix, transform, ins_i,
                   reported, output, svd_calls, transformed, insert_calls,
                   insert_on_existing, export_calls>>

\* line 75
LoadTarget ==
    /\ pc = "load_target"
    /\ \E r \in cached_load_vecs(args.target, fs) :
          /\ target_vecs' = r.ret
          /\ fs' = r.fs
    /\ pc' = "vocab"
    /\ UNCHANGED <<args, source_vecs, source_words, target_words,
                   bilingual_dictionary, new_entries, to_insert, words_added,
                   read_lines, source_matrix, target_matrix, transform, ins_i,
                   reported, output, svd_calls, transformed, insert_calls,
                   insert_on_existing, export_calls>>

\* lines 77-87: None has no attribute word2id (AttributeError).
ReadVocab ==
    /\ pc = "vocab"
    /\ IF source_vecs = None \/ target_vecs = None
       THEN /\ pc' = "aborted"
            /\ UNCHANGED <<source_words, target_words, to_insert>>
       ELSE /\ source_words' = DOMAIN Val(source_vecs)
            /\ target_words' = DOMAIN Val(target_vecs)
            /\ to_insert' = IF args.insert THEN Some(<<>>) ELSE Unbound
            /\ pc' = "unsup"
    /\ bilingual_dictionary' = <<>>
    /\ UNCHANGED <<args, fs, source_vecs, target_vecs, new_entries, words_added,
                   read_lines, source_matrix, target_matrix, transform, ins_i,
                   reported, output, svd_calls, transformed, insert_calls,
                   insert_on_existing, export_calls>>

\* lines 89-97; the order of list(set) is not specified.
Unsup ==
    /\ pc = "unsup"
    /\ IF args.unsup
       THEN \E overlap \in Orderings(Overlap(source_words, target_words)) :
               LET entries == [i \in 1..Len(overlap) |-> <<overlap[i], overlap[i]>>]
               IN  /\ new_entries' = Some(entries)
                   /\ bilingual_dictionary' = bilingual_dictionary \o entries
       ELSE UNCHANGED <<new_entries, bilingual_dictionary>>
    /\ words_added' = 0
    /\ pc' = IF args.biling_dict THEN "dict_loop" ELSE "matrices"
    /\ UNCHANGED <<args, fs, source_vecs, target_vecs, source_words, target_words,
                   to_insert, read_lines, source_matrix, target_matrix, transform,
                   ins_i, reported, output, svd_calls, transformed, insert_calls,
                   insert_on_existing, export_calls>>

\* lines 98-112: one iteration of the loop over the dictionary file
ReadLine ==
    /\ pc = "dict_loop"
    /\ Len(read_lines) < MaxLines
    /\ \E content \in LineContents :
          LET raw == content \o <<NL>>
              entry == ParseLine(raw)
              st == [bd |-> bilingual_dictionary, queue |-> to_insert,
                     added |-> words_added]
              st2 == IF entry = NoEntry THEN st
                     ELSE DictStep(entry, source_words, target_words, args.insert, st)
          IN  /\ bilingual_dictionary' = st2.bd
              /\ to_insert' = st2.queue
              /\ words_added' = st2.added
              /\ read_lines' = Append(read_lines, raw)
    /\ UNCHANGED <<pc, args, fs, source_vecs, target_vecs, source_words,
                   target_words, new_entries, source_matrix, target_matrix,
                   transform, ins_i, reported, output, svd_calls, transformed,
                   insert_calls, insert_on_existing, export_calls>>

\* line 113: the file is exhausted
EndOfFile ==
    /\ pc = "dict_loop"
    /\ pc' = "matrices"
    /\ UNCHANGED <<args, fs, source_vecs, target_vecs, source_words, target_words,
                   bilingual_dictionary, new_entries, to_insert, words_added,
                   read_lines, source_matrix, target_matrix, transform, ins_i,
                   reported, output, svd_calls, transformed, insert_calls,
                   insert_on_existing, export_calls>>

\* lines 119-120
FormMatrices ==
    /\ pc = "matrices"
    /\ LET m == make_training_matrices(Val(source_vecs), Val(target_vecs),
                                       bilingual_dictionary)
       IN  /\ source_matrix' = m.source
           /\ target_matrix' = m.target
    /\ pc' = NextStep(pc, args.insert)
    /\ UNCHANGED <<args, fs, source_vecs, target_vecs, source_words, target_words,
                   bilingual_dictionary, new_entries, to_insert, words_added,
                   read_lines, transform, ins_i, reported, output, svd_calls,
                   transformed, insert_calls, insert_on_existing, export_calls>>

\* line 124: learn_transformation is called whatever the matrices hold, and
\* calls np.linalg.svd.
Learn ==
    /\ pc = "learn"
    /\ svd_calls' = svd_calls + 1
    /\ \E r \in learn_transformation(source_matrix, target_matrix, TRUE) :
          IF r.err
          THEN /\ pc' = "aborted"
               /\ UNCHANGED transform
          ELSE /\ pc' = NextStep(pc, args.insert)
               /\ transform' = Some(r.T)
    /\ UNCHANGED <<args, fs, source_vecs, target_vecs, source_words, target_words,
                   bilingual_dictionary, new_entries, to_insert, words_added,
                   read_lines, source_matrix, target_matrix, ins_i, reported,
                   output, transformed, insert_calls, insert_on_existing,
                   export_calls>>

\* line 125
Apply ==
    /\ pc = "apply"
    /\ LET r == FV_ApplyTransform(Val(source_vecs), Val(transform))
       IN  IF r.err
           THEN /\ pc' = "aborted"
                /\ UNCHANGED <<source_vecs, transformed>>
           ELSE /\ pc' = NextStep(pc, args.insert)
                /\ source_vecs' = Some(r.fv)
                /\ transformed' = TRUE
    /\ UNCHANGED <<args, fs, target_vecs, source_words, target_words,
                   bilingual_dictionary, new_entries, to_insert, words_added,
                   read_lines, source_matrix, target_matrix, transform, ins_i,
                   reported, output, svd_calls, insert_calls, insert_on_existing,
                   export_calls>>

\* lines 128-133: one iteration of the insertion loop
InsertStep ==
    /\ pc = "insert_loop"
    /\ ins_i < Len(Val(to_insert))
    /\ LET insert == Val(to_insert)[ins_i + 1]
           new_source == insert[1]
           anchor == insert[2]
       IN  IF ContainsSpace(new_source)
           THEN UNCHANGED <<source_vecs, insert_calls, insert_on_existing>>
           ELSE /\ \E fv \in FV_Insert(Val(source_vecs), new_source,
                                      FV_Get(Val(target_vecs), anchor)) :
                      source_vecs' = Some(fv)
                /\ insert_calls' = insert_calls + 1
                /\ insert_on_existing' =
                      (insert_on_existing \/ FV_Contains(Val(source_vecs), new_source))
    /\ ins_i' = ins_i + 1
    /\ UNCHANGED <<pc, args, fs, target_vecs, source_words, target_words,
                   bilingual_dictionary, new_entries, to_insert, words_added,
                   read_lines, source_matrix, target_matrix, transform, reported,
                   output, svd_calls, transformed, export_calls>>

\* line 135
InsertReport ==
    /\ pc = "insert_loop"
    /\ ins_i = Len(Val(to_insert))
    /\ reported' = Some(Len(Val(to_insert)))
    /\ pc' = NextStep(pc, args.insert)
    /\ UNCHANGED <<args, fs, source_vecs, target_vecs, source_words, target_words,
                   bilingual_dictionary, new_entries, to_insert, words_added,
                   read_lines, source_matrix, target_matrix, transform, ins_i,
                   output, svd_calls, transformed, insert_calls,
                   insert_on_existing, export_calls>>

\* lines 142-143
Export ==
    /\ pc = "export"
    /\ output' = Some(FV_Export(Val(source_vecs)))
    /\ export_calls' = export_calls + 1
    /\ pc' = NextStep(pc, args.insert)
    /\ UNCHANGED <<args, fs, source_vecs, target_vecs, source_words, target_words,
                   bilingual_dictionary, new_entries, to_insert, words_added,
                   read_lines, source_matrix, target_matrix, transform, ins_i,
                   reported, svd_calls, transformed, insert_calls,
                   insert_on_existing>>

Next ==
    \/ LoadSource
    \/ LoadTarget
    \/ ReadVocab
    \/ Unsup
    \/ ReadLine
    \/ EndOfFile
    \/ FormMatrices
    \/ Learn
    \/ Apply
    \/ InsertStep
    \/ InsertReport
    \/ Export

Spec == Init /\ [][Next]_vars

---------------------------------------------------------------------------
\* make_training_matrices on its own: any pair list, known words or not, and
\* any two spaces.

MTMWords == {W_a, W_aa, W_a_a}

PairLists == UNION { [1..n -> MTMWords \X MTMWords] : n \in 0..MaxPairs }

NoArgs ==
    [source |-> "src.vec", target |-> "tgt.vec", output |-> "out.vec",
     unsup |-> FALSE, biling_dict |-> FALSE, insert |-> FALSE]

InitMTM ==
    /\ pc = "matrices"
    /\ args = NoArgs
    /\ fs = {}
    /\ source_vecs \in { Some(sp) : sp \in PickleSpaces }
    /\ target_vecs \in { Some(sp) : sp \in PickleSpaces }
    /\ source_words = DOMAIN Val(source_vecs)
    /\ target_words = DOMAIN Val(target_vecs)
    /\ bilingual_dictionary \in PairLists
    /\ new_entries = Unbound
    /\ to_insert = Unbound
    /\ words_added = 0
    /\ read_lines = <<>>
    /\ source_matrix = <<>>
    /\ target_matrix = <<>>
    /\ transform = Unbound
    /\ ins_i = 0
    /\ reported = None
    /\ output = None
    /\ svd_calls = 0
    /\ transformed = FALSE
    /\ insert_calls = 0
    /\ insert_on_existing = FALSE
    /\ export_calls = 0

NextMTM == FormMatrices

SpecMTM == InitMTM /\ [][NextMTM]_vars

---------------------------------------------------------------------------
\* learn_transformation on its own: training matrices of up to MaxRows rows
\* in dimension 1 and 2, on which the arithmetic is exact.

Components == {-2, 0, 1}

ExactVectors(d) == { v \in [1..d -> Components] : ExactRow(v) }

InitLT ==
    /\ pc = "learn"
    /\ args = NoArgs
    /\ fs = {}
    /\ source_vecs = Unbound
    /\ target_vecs = Unbound
    /\ source_words = {}
    /\ target_words = {}
    /\ bilingual_dictionary = <<>>
    /\ new_entries = Unbound
    /\ to_insert = Unbound
    /\ words_added = 0
    /\ read_lines = <<>>
    /\ \E d \in Dims : \E n \in 0..MaxRows :
          /\ source_matrix \in [1..n -> ExactVectors(d)]
          /\ target_matrix \in [1..n -> ExactVectors(d)]
    /\ HasExactSVD(Product(source_matrix, target_matrix, TRUE))
    /\ transform = Unbound
    /\ ins_i = 0
    /\ reported = None
    /\ output = None
    /\ svd_calls = 0
    /\ transformed = FALSE
    /\ insert_calls = 0
    /\ insert_on_existing = FALSE
    /\ export_calls = 0

NextLT == Learn

SpecLT == InitLT /\ [][NextLT]_vars

---------------------------------------------------------------------------
\* Properties.

\* The lines ReadLine may consume.
RawLines == { c \o <<NL>> : c \in LineContents }

\* The pair a line stands for, stated on the characters of the line: s and t
\* are the two maximal runs free of tabs and of leading and trailing
\* whitespace, separated by exactly one tab (and whitespace), with nothing but
\* whitespace before s and after t.  Empty when the line is no such line.
EntryOf(l) ==
    { <<SubSeq(l, q[1], q[2]), SubSeq(l, q[3], q[4])>> :
        q \in { r \in (1..Len(l)) \X (1..Len(l)) \X (1..Len(l)) \X (1..Len(l)) :
                  /\ r[1] <= r[2] /\ r[2] < r[3] /\ r[3] <= r[4]
                  /\ \A x \in 1..(r[1] - 1) : IsWhitespace(l[x])
                  /\ \A x \in (r[4] + 1)..Len(l) : IsWhitespace(l[x])
                  /\ \A x \in {r[1], r[2], r[3], r[4]} : ~IsWhitespace(l[x])
                  /\ \A x \in (r[1]..r[2]) \cup (r[3]..r[4]) : l[x] # TAB
                  /\ \A x \in (r[2] + 1)..(r[3] - 1) : IsWhitespace(l[x])
                  /\ Cardinality({ x \in (r[2] + 1)..(r[3] - 1) : l[x] = TAB }) = 1 } }

EntryTable == [l \in RawLines |-> EntryOf(l)]

\* The supervised pairs a sequence of lines must give, in the lines' order.
RECURSIVE ExpectedSupervised(_, _, _)
ExpectedSupervised(lines, sw, tw) ==
    IF lines = <<>> THEN <<>>
    ELSE LET kept == { e \in EntryTable[Head(lines)] : e[1] \in sw /\ e[2] \in tw }
         IN  (IF kept = {} THEN <<>> ELSE <<CHOOSE e \in kept : TRUE>>)
               \o ExpectedSupervised(Tail(lines), sw, tw)

\* The pairs of bilingual_dictionary that come from the dictionary file.
SupervisedPairs ==
    SubSeq(bilingual_dictionary,
           (IF IsSome(new_entries) THEN Len(Val(new_entries)) ELSE 0) + 1,
           Len(bilingual_dictionary))

\* C1: the supervised pairs are exactly the trimmed pairs of the lines read
\* whose source word is in the source vocabulary and whose target word is in
\* the target vocabulary, one per such line, in the order of the lines,
\* duplicates kept; words_added counts them.
C1_SupervisedPairs ==
    /\ SupervisedPairs = ExpectedSupervised(read_lines, source_words, target_words)
    /\ \A i \in 1..Len(SupervisedPairs) :
          /\ SupervisedPairs[i][1] \in source_words
          /\ SupervisedPairs[i][2] \in target_words
    /\ words_added = Len(SupervisedPairs)

\* C1 witness: two lines, one of them padded with spaces, gave the same
\* supervised pair twice.
C1_Witness ==
    /\ pc = "matrices"
    /\ Len(SupervisedPairs) = 2
    /\ SupervisedPairs[1] = SupervisedPairs[2]
    /\ read_lines[1] # read_lines[2]

\* C2: make_training_matrices gives two matrices of the same row count, the
\* number of pairs with both words known; row i of each is the vector of the
\* i-th such pair, in the order of the pair list.
C2_TrainingMatrices ==
    pc = "learn" =>
        LET sd == Val(source_vecs)
            td == Val(target_vecs)
            Known(p) == p[1] \in DOMAIN sd /\ p[2] \in DOMAIN td
            surviving == SelectSeq(bilingual_dictionary, Known)
        IN  /\ Rows(source_matrix) = Rows(target_matrix)
            /\ Rows(source_matrix) =
                  Cardinality({ i \in 1..Len(bilingual_dictionary) :
                                  Known(bilingual_dictionary[i]) })
            /\ Rows(source_matrix) = Len(surviving)
            /\ \A i \in 1..Len(surviving) :
                  /\ source_matrix[i] = sd[surviving[i][1]]
                  /\ target_matrix[i] = td[surviving[i][2]]

\* C2 witness: of two pairs, the first has an unknown word and is skipped,
\* the second gives the only row.
C2_Witness ==
    /\ pc = "learn"
    /\ Len(bilingual_dictionary) = 2
    /\ bilingual_dictionary[1][1] \notin DOMAIN Val(source_vecs)
    /\ Rows(source_matrix) = 1
    /\ Rows(target_matrix) = 1

\* C3: the matrix learn_transformation returns is square and orthogonal:
\* its transpose times it, and it times its transpose, are the identity; for
\* matrices of at least one row its dimension is the vectors' dimension.
C3_Orthogonal ==
    IsSome(transform) =>
        LET T == Val(transform)
        IN  /\ \A i \in 1..Rows(T) : Len(T[i]) = Rows(T)
            /\ MatMul(Transpose(T), T) = Identity(Rows(T))
            /\ MatMul(T, Transpose(T)) = Identity(Rows(T))
            /\ Rows(source_matrix) > 0 => Rows(T) = Cols(source_matrix)

\* C3 witness: a transformation of dimension 2 other than the identity was
\* learnt from two rows that are not unit vectors.
C3_Witness ==
    /\ IsSome(transform)
    /\ Rows(source_matrix) = 2
    /\ Rows(Val(transform)) = 2
    /\ Val(transform) # Identity(2)
    /\ normalized(source_matrix) # source_matrix

\* The order of the positions of the script.
Rank(p) ==
    CASE p = "load_source" -> 0
      [] p = "load_target" -> 1
      [] p = "vocab" -> 2
      [] p = "unsup" -> 3
      [] p = "dict_loop" -> 4
      [] p = "matrices" -> 5
      [] p = "learn" -> 6
      [] p = "apply" -> 7
      [] p = "insert_loop" -> 8
      [] p = "export" -> 9
      [] p = "done" -> 10
      [] p = "aborted" -> 11

\* C4: the run only moves forward through its stages; the transform is
\* applied before any insertion and not after one; the export happens once,
\* after the transform and after the insertion loop has ended, and is the
\* last step.
C4_StageOrder ==
    [][ /\ Rank(pc') >= Rank(pc)
        /\ pc # "done"
        /\ insert_calls' # insert_calls => transformed /\ pc = "insert_loop"
        /\ transformed' # transformed => insert_calls = 0 /\ IsSome(transform)
        /\ export_calls' # export_calls =>
              /\ export_calls = 0
              /\ transformed
              /\ args.insert => IsSome(reported) /\ ins_i = Len(Val(to_insert))
              /\ pc' = "done" ]_vars

\* C4 witness: a run that transformed, inserted a word and exported.
C4_Witness ==
    /\ pc = "done"
    /\ transformed
    /\ insert_calls >= 1
    /\ export_calls = 1
    /\ IsSome(output)

\* C5: with training matrices of no rows the SVD is never entered and the
\* source space is neither transformed, nor inserted into, nor exported.
C5_AbortBeforeSVD ==
    Rows(source_matrix) = 0 =>
        /\ svd_calls = 0
        /\ ~transformed
        /\ insert_calls = 0
        /\ export_calls = 0

\* C6: the count reported after the insertion loop is the number of words
\* inserted.
C6_ReportedCount ==
    IsSome(reported) => Val(reported) = insert_calls

\* C7: a line read as the entry (s, t) is appended to the insertion queue
\* exactly when insertion mode is on, t is in the target vocabulary and s is
\* not in the source vocabulary; it is never both kept as a supervised pair
\* and queued; with insertion mode off there is no queue; an entry that is
\* neither kept nor queued, and a line that is no entry, change nothing.
C7_QueueRule ==
    [][ (pc = "dict_loop" /\ Len(read_lines') = Len(read_lines) + 1) =>
          LET l == read_lines'[Len(read_lines')]
              supervised(e) == bilingual_dictionary' = Append(bilingual_dictionary, e)
              queued(e) == /\ IsSome(to_insert)
                           /\ to_insert' = Some(Append(Val(to_insert), e))
          IN  /\ \A e \in EntryTable[l] :
                    /\ queued(e) <=> /\ args.insert
                                     /\ e[2] \in target_words
                                     /\ e[1] \notin source_words
                    /\ ~(queued(e) /\ supervised(e))
                    /\ ~queued(e) => to_insert' = to_insert
                    /\ ~supervised(e) => bilingual_dictionary' = bilingual_dictionary
              /\ EntryTable[l] = {} =>
                    /\ to_insert' = to_insert
                    /\ bilingual_dictionary' = bilingual_dictionary
              /\ ~args.insert => to_insert' = Unbound ]_vars

\* C7 witness: with insertion mode on, one line was kept as a supervised
\* pair and another was queued.
C7_Witness ==
    /\ pc = "matrices"
    /\ args.insert
    /\ IsSome(to_insert)
    /\ Len(Val(to_insert)) = 1
    /\ Len(SupervisedPairs) = 1

\* The unsupervised step has run.
UnsupDone ==
    \/ pc \in {"dict_loop", "matrices", "learn", "apply", "insert_loop", "export", "done"}
    \/ pc = "aborted" /\ svd_calls > 0

\* C8: with --unsup the pair list receives exactly one pair (w, w) for each
\* word of both vocabularies and no other; the pairs are in the list the
\* supervised pairs are added to, and their vectors are rows of the training
\* matrices.  Without --unsup there are no such pairs.
C8_Unsupervised ==
    UnsupDone =>
        IF args.unsup
        THEN /\ IsSome(new_entries)
             /\ LET entries == Val(new_entries)
                    both == source_words \cap target_words
                IN  /\ Len(entries) = Cardinality(both)
                    /\ { entries[i] : i \in 1..Len(entries) } = { <<w, w>> : w \in both }
                    /\ Len(bilingual_dictionary) >= Len(entries)
                    /\ SubSeq(bilingual_dictionary, 1, Len(entries)) = entries
                    /\ pc = "learn" =>
                          /\ Rows(source_matrix) >= Len(entries)
                          /\ \A i \in 1..Len(entries) :
                                /\ source_matrix[i] = Val(source_vecs)[entries[i][1]]
                                /\ target_matrix[i] = Val(target_vecs)[entries[i][2]]
        ELSE /\ new_entries = Unbound
             /\ Len(bilingual_dictionary) = words_added

\* C8 witness: the source vocabulary {a, aa} and the target vocabulary {a}
\* gave exactly the pair (a, a), which is the first row of the matrices.
C8_Witness ==
    /\ pc = "learn"
    /\ args.unsup
    /\ source_words = {W_a, W_aa}
    /\ target_words = {W_a}
    /\ new_entries = Some(<< <<W_a, W_a>> >>)
    /\ Rows(source_matrix) >= 1

\* C9: insert is never called for a word that is already in the source space.
C9_NoInsertOnExisting == ~insert_on_existing

\* C10: cached_load_vecs returns the space whether or not the cache file is
\* there: after the two loads both spaces are usable.
C10_LoadReturnsSpace ==
    /\ Rank(pc) >= Rank("load_target") => IsSome(source_vecs)
    /\ Rank(pc) >= Rank("vocab") => IsSome(target_vecs)

====
